---- MODULE Spec2Model ----
(***************************************************************************)
(* InsightMesh backend: the POST /analyze pipeline of main.py              *)
(* (analyze_csv_data), its four stage tools, the language-model client     *)
(* and the HTML report store.                                              *)
(*                                                                         *)
(* A run is one call of analyze_csv_data.  The handler is a coroutine      *)
(* whose only suspension point is `await file.read()`; from there to its   *)
(* return it holds the event loop (variable running).                      *)
(***************************************************************************)
EXTENDS Integers, Sequences, FiniteSets, TLC

MaxRuns == 2
MaxClock == 1

Runs == 1 .. MaxRuns

\* The report-endpoint requests in progress together: two, so that one
\* request can overtake the other.
Clients == { 1, 2 }

(***************************************************************************)
(* Python dictionaries are functions whose domain is the set of keys.      *)
(***************************************************************************)
EmptyDict == [k \in {} |-> 0]

Update(d, e) ==
    [k \in (DOMAIN d) \cup (DOMAIN e) |-> IF k \in DOMAIN e THEN e[k] ELSE d[k]]

Has(d, k) == k \in DOMAIN d

\* dict.get(k, default)
GetOr(d, k, default) == IF Has(d, k) THEN d[k] ELSE default

RemoveKeyKeeps(d, k) == d

RemoveKey(d, k) == [x \in (DOMAIN d) \ {k} |-> d[x]]

(***************************************************************************)
(* Uploads.  A filename is a sequence of tokens; an upload's content       *)
(* either parses as CSV into columns or makes pd.read_csv raise.           *)
(* A column keeps its non-missing values and the number of missing cells.  *)
(***************************************************************************)
Filenames == { <<"data", ".csv">>, <<"notes", ".txt">> }

ExampleCsv ==
    [parses |-> TRUE,
     columns |-> << [name |-> "id", numeric |-> TRUE, vals |-> <<1, 2, 3>>, nulls |-> 0],
                    [name |-> "amount", numeric |-> TRUE, vals |-> <<10, 30>>, nulls |-> 1] >>]

Garbage == [parses |-> FALSE, columns |-> <<>>]

Contents == {ExampleCsv, Garbage}

EndsWithCsvAlways(filename) == TRUE

\* str.endswith('.csv'), main.py 97.
EndsWithCsv(filename) ==
    Len(filename) > 0 /\ filename[Len(filename)] = ".csv"

ReplaceCsv(filename) == SelectSeq(filename, LAMBDA t : t # ".csv")

(***************************************************************************)
(* Results of a call: a returned dictionary or a raised exception.         *)
(***************************************************************************)
Returned(v) == [raised |-> FALSE, value |-> v, error |-> ""]

Raised(msg) == [raised |-> TRUE, value |-> EmptyDict, error |-> msg]

(***************************************************************************)
(* The stage tools.                                                        *)
(***************************************************************************)
ColumnNames(df) == [i \in 1 .. Len(df.columns) |-> df.columns[i].name]

NumRows(df) ==
    IF Len(df.columns) = 0 THEN 0
    ELSE Len(df.columns[1].vals) + df.columns[1].nulls

ingestion_tool(path, fs) ==
    IF path \in DOMAIN fs /\ fs[path].parses
    THEN Returned([dataframe |-> fs[path],
                   filename |-> path,
                   num_rows |-> NumRows(fs[path]),
                   num_columns |-> Len(fs[path].columns),
                   column_names |-> ColumnNames(fs[path])])
    ELSE Raised("read_csv failed")

NameSet(df) == { df.columns[i].name : i \in 1 .. Len(df.columns) }

ColumnOf(df, n) == CHOOSE c \in { df.columns[i] : i \in 1 .. Len(df.columns) } : c.name = n

Suggestion(c) == <<"Fill missing values in ", c.name>>

RECURSIVE Suggestions(_)
Suggestions(cols) ==
    IF cols = <<>> THEN <<>>
    ELSE (IF Head(cols).nulls > 0 THEN << Suggestion(Head(cols)) >> ELSE <<>>)
         \o Suggestions(Tail(cols))

cleaning_tool_all(df) ==
    Returned([null_summary |-> [n \in NameSet(df) |-> ColumnOf(df, n).nulls],
              suggestions |-> [i \in DOMAIN df.columns |-> Suggestion(df.columns[i])]])

\* sub_agents/cleaner/agent.py 8-11.
cleaning_tool(df) ==
    Returned([null_summary |-> [n \in NameSet(df) |-> ColumnOf(df, n).nulls],
              suggestions |-> Suggestions(df.columns)])

RECURSIVE SeqSum(_)
SeqSum(s) == IF s = <<>> THEN 0 ELSE Head(s) + SeqSum(Tail(s))

SeqMin(s) == CHOOSE x \in { s[i] : i \in 1 .. Len(s) } : \A j \in 1 .. Len(s) : x <= s[j]

SeqMax(s) == CHOOSE x \in { s[i] : i \in 1 .. Len(s) } : \A j \in 1 .. Len(s) : x >= s[j]

Describe(c) ==
    IF c.numeric /\ Len(c.vals) > 0
    THEN [count |-> Len(c.vals), sum |-> SeqSum(c.vals),
          min |-> SeqMin(c.vals), max |-> SeqMax(c.vals)]
    ELSE [count |-> Len(c.vals), sum |-> 0, min |-> 0, max |-> 0]

analysis_tool(df) ==
    Returned([numeric_summary |-> [n \in NameSet(df) |-> Describe(ColumnOf(df, n))]])


(***************************************************************************)
(* The language-model client.  The model call either raises or returns a   *)
(* text, which may be blank; strip() removes blanks at both ends.          *)
(***************************************************************************)
LlmOutcomes ==
    { [raised |-> TRUE, text |-> <<>>],
      [raised |-> FALSE, text |-> <<" ">>],
      [raised |-> FALSE, text |-> <<"insight", " ">>] }

RECURSIVE LStrip(_)
LStrip(s) == IF s # <<>> /\ Head(s) = " " THEN LStrip(Tail(s)) ELSE s

RECURSIVE RStrip(_)
RStrip(s) ==
    IF s # <<>> /\ s[Len(s)] = " " THEN RStrip(SubSeq(s, 1, Len(s) - 1)) ELSE s

Strip(s) == RStrip(LStrip(s))

summarize_with_llm(stats_text, llm) ==
    IF llm.raised
    THEN <<"(LLM unavailable) Key data statistics:">> \o stats_text
    ELSE Strip(llm.text)

RECURSIVE SetToSeq(_)
SetToSeq(S) ==
    IF S = {} THEN <<>>
    ELSE LET x == CHOOSE y \in S : TRUE IN <<x>> \o SetToSeq(S \ {x})

to_string(numeric_summary) == SetToSeq(DOMAIN numeric_summary)

summarizer_tool(numeric_summary, cleaned, fault, llm) ==
    IF fault THEN Raised("to_string failed")
    ELSE Returned([summary_text |-> summarize_with_llm(to_string(numeric_summary), llm)])

(***************************************************************************)
(* The report generator.                                                   *)
(***************************************************************************)
Unbound == [stem |-> <<>>, ts |-> -1]

(***************************************************************************)
(* The three section renderers.  A rendered section is its fixed text and  *)
(* the data laid out under it; None is the empty tuple, a present value    *)
(* the one-element tuple, as in Insights below.                            *)
(***************************************************************************)
format_summary_text(summary) ==
    IF summary = <<>>
    THEN [text |-> "No summary available.", body |-> <<>>]
    ELSE [text |-> "", body |-> summary]

generate_cleaning_section(cleaning_info) ==
    LET null_summary == GetOr(cleaning_info, "null_summary", << EmptyDict >>)
        suggestions == GetOr(cleaning_info, "suggestions", << <<>> >>)
    IN IF null_summary = <<>> \/ DOMAIN null_summary[1] = {}
       THEN [text |-> "No cleaning analysis available.", table |-> EmptyDict,
             suggestions |-> <<>>]
       ELSE [text |-> "Missing Values Analysis",
             table |-> null_summary[1],
             suggestions |-> IF suggestions = <<>> THEN <<>> ELSE suggestions[1]]

generate_statistics_section(analysis_results) ==
    IF analysis_results = <<>> \/ DOMAIN analysis_results[1] = {}
    THEN [text |-> "No statistical analysis available.", tables |-> EmptyDict]
    ELSE [text |-> "", tables |-> analysis_results[1]]

\* The clock counts seconds; the report body shows the time to the minute
\* (line 259), the report_id to the second (line 11).
MinuteLen == 2

generate_html_report_untimed(analysis_data, filename, now) ==
    [html_content |-> [title |-> filename,
                       generated_at |-> now \div MinuteLen,
                       summary |-> analysis_data.summary,
                       processing_steps |-> analysis_data.processing_steps,
                       insights |-> analysis_data.insights,
                       summary_section |-> format_summary_text(analysis_data.summary),
                       cleaning_section |->
                          generate_cleaning_section(
                             GetOr(analysis_data.insights, "cleaning_info", EmptyDict)),
                       statistics_section |->
                          generate_statistics_section(
                             GetOr(analysis_data.insights, "analysis_results",
                                   << EmptyDict >>))],
     report_id |-> [stem |-> ReplaceCsv(filename), ts |-> 0]]

\* html_report_generator.py 7-359.
generate_html_report(analysis_data, filename, now) ==
    [html_content |-> [title |-> filename,
                       generated_at |-> now \div MinuteLen,
                       summary |-> analysis_data.summary,
                       processing_steps |-> analysis_data.processing_steps,
                       insights |-> analysis_data.insights,
                       summary_section |-> format_summary_text(analysis_data.summary),
                       cleaning_section |->
                          generate_cleaning_section(
                             GetOr(analysis_data.insights, "cleaning_info", EmptyDict)),
                       statistics_section |->
                          generate_statistics_section(
                             GetOr(analysis_data.insights, "analysis_results",
                                   << EmptyDict >>))],
     report_id |-> [stem |-> ReplaceCsv(filename), ts |-> now]]

\* A file whose write stopped before any section was written.
PartialFile == [title |-> <<>>, generated_at |-> 0, summary |-> <<>>, processing_steps |-> <<>>,
                insights |-> EmptyDict,
                summary_section |-> [text |-> "", body |-> <<>>],
                cleaning_section |-> [text |-> "", table |-> EmptyDict,
                                      suggestions |-> <<>>],
                statistics_section |-> [text |-> "", tables |-> EmptyDict]]

save_html_report_truncates(store, content, id, fault) ==
    IF fault = "open" THEN store
    ELSE Update(store, [k \in {id} |-> PartialFile])

save_html_report(store, content, id, fault) ==
    IF fault = "open" THEN store
    ELSE IF fault = "write" THEN Update(store, [k \in {id} |-> PartialFile])
    ELSE Update(store, [k \in {id} |-> content])

SaveFaults == {"none", "open", "write"}

(***************************************************************************)
(* State.                                                                  *)
(***************************************************************************)
VARIABLES
    pc,                \* position of each run in analyze_csv_data
    file,              \* the UploadFile of each run: filename and content
    temp_file_path,    \* local temp_file_path, 0 while unbound
    shared_state,      \* local shared_state
    processing_steps,  \* local processing_steps
    final_summary,     \* local final_summary
    insights,          \* local insights
    html_content,      \* local html_content
    report_id,         \* local report_id, Unbound until generate returns
    response,          \* what the request ended with
    calls,             \* the tool and report functions the run has invoked, in order
    tmpfs,             \* the temporary directory: path -> content
    output,            \* the report directory: report id -> file content
    clock,             \* wall clock, in seconds
    running,           \* the run that holds the event loop, 0 if none
    llm_call,          \* how the run's generate_content call ended
    req,               \* each report-endpoint request: operation, position, response
    mtime,             \* modification time of each file of the report directory
    saved,             \* report id -> body of its last completed save, until deleted
    deleted,           \* report ids deleted and not saved again since
    cli,               \* the command-line pipeline process
    output_dir,        \* whether the report directory exists
    call,              \* the last application of a stage or report function on its own
    before,            \* the application of generate_html_report before the last one
    upload,            \* each /ingest/upload request: position, file, response
    temp_csv           \* the content of the file at TEMP_CSV_PATH

vars == << pc, file, temp_file_path, shared_state, processing_steps,
           final_summary, insights, html_content, report_id, response,
           calls, tmpfs, output, clock, running, llm_call,
           req, mtime, saved, deleted, cli, output_dir,
           call, before, upload, temp_csv >>

\* The state of the report endpoints and of the command-line pipeline.
auxVars == << req, mtime, saved, deleted, cli >>

\* The state of the function applications and of the upload endpoint.
otherVars == << call, before, upload, temp_csv >>

NoRequest == [op |-> "none", id |-> Unbound, pc |-> "idle", status_code |-> 0,
              content |-> PartialFile, names |-> {}, reports |-> <<>>,
              total |-> 0, message |-> <<>>]

NoCall == [fn |-> "none"]

\* Requests to /ingest/upload in progress together.
Uploads == { 1, 2 }

NoUpload ==
    [pc |-> "idle", file |-> [filename |-> <<>>, content |-> Garbage],
     status_code |-> 0, df |-> Garbage, overlapped |-> FALSE]

NotStarted == [pc |-> "idle", argv |-> <<>>, calls |-> <<>>,
               exit_code |-> -1, summary_written |-> FALSE]

NoFile == [filename |-> <<>>, content |-> Garbage]

NoResponse == [status_code |-> 0]

DefaultSummary == << "Analysis completed using Google ADK agents" >>

Init ==
    /\ pc = [r \in Runs |-> "idle"]
    /\ file = [r \in Runs |-> NoFile]
    /\ temp_file_path = [r \in Runs |-> 0]
    /\ shared_state = [r \in Runs |-> EmptyDict]
    /\ processing_steps = [r \in Runs |-> <<>>]
    /\ final_summary = [r \in Runs |-> <<>>]
    /\ insights = [r \in Runs |-> EmptyDict]
    /\ html_content = [r \in Runs |-> PartialFile]
    /\ report_id = [r \in Runs |-> Unbound]
    /\ response = [r \in Runs |-> NoResponse]
    /\ calls = [r \in Runs |-> <<>>]
    /\ tmpfs = EmptyDict
    /\ output = EmptyDict
    /\ clock = 0
    /\ running = 0
    /\ llm_call = [r \in Runs |-> "none"]
    /\ req = [c \in Clients |-> NoRequest]
    /\ mtime = EmptyDict
    /\ saved = EmptyDict
    /\ deleted = {}
    /\ cli = NotStarted
    /\ output_dir = FALSE
    /\ call = NoCall
    /\ before = NoCall
    /\ upload = [u \in Uploads |-> NoUpload]
    /\ temp_csv = Garbage


(***************************************************************************)
(* Processing steps.                                                       *)
(***************************************************************************)
Description(step) ==
    CASE step = "ingestor" -> "Load and parse the uploaded CSV file"
      [] step = "cleaner" -> "Clean and validate the dataset"
      [] step = "analyzer" -> "Perform basic descriptive statistics"
      [] step = "summarizer" -> "Generate LLM-based summary of insights"

GetOrNone(d, k) == IF Has(d, k) THEN <<d[k]>> ELSE <<>>

StepOutput(step, result) ==
    CASE step = "ingestor" -> [filename |-> GetOrNone(result, "filename"),
                               num_rows |-> GetOrNone(result, "num_rows"),
                               num_columns |-> GetOrNone(result, "num_columns"),
                               column_names |-> GetOrNone(result, "column_names")]
      [] step = "cleaner" -> [null_summary |-> GetOrNone(result, "null_summary"),
                              suggestions |-> GetOrNone(result, "suggestions")]
      [] step = "analyzer" -> [numeric_summary |-> GetOrNone(result, "numeric_summary")]
      [] step = "summarizer" -> [summary_text |-> GetOrNone(result, "summary_text")]

CompletedStep(step, result) ==
    [step |-> step, agent |-> step, description |-> Description(step),
     status |-> "completed", output |-> StepOutput(step, result)]

FailedStepAsCompleted(step, err) ==
    [step |-> step, agent |-> step, description |-> Description(step),
     status |-> "completed", error |-> err]

FailedStep(step, err) ==
    [step |-> step, agent |-> step, description |-> Description(step),
     status |-> "failed", error |-> err]

HTTPException(code, detail) == [status_code |-> code, detail |-> detail]

Unlink(fs, path) == RemoveKey(fs, path)

(***************************************************************************)
(* analyze_csv_data, lines 97-105: the extension check, the temporary file *)
(* and the suspension at `await file.read()`.                              *)
(***************************************************************************)
NamedTemporaryFileShared(r) == 1

\* tempfile picks a name that no existing file has.
NamedTemporaryFile(r) == r

Receive(r) ==
    /\ UNCHANGED << auxVars, otherVars, output_dir >>
    /\ pc[r] = "idle"
    /\ running = 0
    /\ \E f \in Filenames, c \in Contents :
          /\ file' = [file EXCEPT ![r] = [filename |-> f, content |-> c]]
          /\ IF ~EndsWithCsv(f)
             THEN /\ response' = [response EXCEPT ![r] =
                        HTTPException(400, "Only CSV files are supported")]
                  /\ pc' = [pc EXCEPT ![r] = "done"]
                  /\ running' = r
                  /\ UNCHANGED tmpfs
             ELSE /\ tmpfs' = Update(tmpfs, [p \in {NamedTemporaryFile(r)} |-> Garbage])
                  /\ pc' = [pc EXCEPT ![r] = "reading"]
                  /\ UNCHANGED << response, running >>
    /\ UNCHANGED << temp_file_path, shared_state, processing_steps, final_summary,
                    insights, html_content, report_id, calls, output, clock, llm_call >>

(***************************************************************************)
(* Lines 103-115: the read completes and the content is written, or the    *)
(* read raises inside the with block and the handler at 295-303 runs with  *)
(* temp_file_path unbound.                                                 *)
(***************************************************************************)
ReadUpload(r) ==
    /\ UNCHANGED << auxVars, otherVars, output_dir >>
    /\ pc[r] = "reading"
    /\ running = 0
    /\ running' = r
    /\ \E fault \in BOOLEAN :
          IF fault
          THEN /\ response' = [response EXCEPT ![r] =
                     HTTPException(500, "Analysis failed")]
               /\ tmpfs' = IF temp_file_path[r] # 0 THEN Unlink(tmpfs, temp_file_path[r])
                           ELSE tmpfs
               /\ pc' = [pc EXCEPT ![r] = "done"]
               /\ UNCHANGED << temp_file_path, shared_state >>
          ELSE /\ tmpfs' = Update(tmpfs, [p \in {NamedTemporaryFile(r)} |-> file[r].content])
               /\ temp_file_path' = [temp_file_path EXCEPT ![r] = NamedTemporaryFile(r)]
               /\ shared_state' = [shared_state EXCEPT ![r] =
                      [uploaded_file |-> NamedTemporaryFile(r)]]
               /\ pc' = [pc EXCEPT ![r] = "ingest"]
               /\ UNCHANGED response
    /\ UNCHANGED << file, processing_steps, final_summary, insights, html_content,
                    report_id, calls, output, clock, llm_call >>

(***************************************************************************)
(* Lines 117-145 and the handlers at 257-259 and 293-294.                  *)
(***************************************************************************)
IngestFailedContinues(r, err) ==
    /\ processing_steps' = [processing_steps EXCEPT ![r] =
            Append(@, FailedStep("ingestor", err))]
    /\ pc' = [pc EXCEPT ![r] = "cleaner"]
    /\ UNCHANGED << shared_state, tmpfs, response >>

IngestFailedReports(r, err) ==
    /\ processing_steps' = [processing_steps EXCEPT ![r] =
            Append(@, FailedStep("ingestor", err))]
    /\ pc' = [pc EXCEPT ![r] = "generate"]
    /\ UNCHANGED << shared_state, tmpfs, response >>

IngestFailed(r, err) ==
    /\ processing_steps' = [processing_steps EXCEPT ![r] =
            Append(@, FailedStep("ingestor", err))]
    /\ response' = [response EXCEPT ![r] =
            HTTPException(500, "Google ADK pipeline failed")]
    /\ pc' = [pc EXCEPT ![r] = "done"]
    /\ UNCHANGED << shared_state, tmpfs >>

Ingest(r) ==
    /\ UNCHANGED << auxVars, otherVars, output_dir >>
    /\ pc[r] = "ingest"
    /\ calls' = [calls EXCEPT ![r] = Append(@, "ingestor")]
    /\ LET ingest_result == ingestion_tool(temp_file_path[r], tmpfs) IN
          IF ingest_result.raised
          THEN IngestFailed(r, ingest_result.error)
          ELSE /\ shared_state' = [shared_state EXCEPT ![r] =
                      Update(@, ingest_result.value)]
               /\ processing_steps' = [processing_steps EXCEPT ![r] =
                      Append(@, CompletedStep("ingestor", ingest_result.value))]
               /\ pc' = [pc EXCEPT ![r] = "cleaner"]
               /\ UNCHANGED << response, tmpfs >>
    /\ UNCHANGED << file, temp_file_path, final_summary, insights, html_content,
                    report_id, output, clock, running, llm_call >>


(***************************************************************************)
(* Stages 2-4 share one shape: the tool's result is merged and a completed *)
(* step appended, or the except clause appends a failed step.              *)
(***************************************************************************)
MissingInput(step) ==
    CASE step = "cleaner" -> "No dataframe available from ingestor"
      [] step = "analyzer" -> "No dataframe available for analysis"
      [] step = "summarizer" -> "No analysis results available for summarization"

StageCompletedPrepends(r, step, value, next) ==
    /\ shared_state' = [shared_state EXCEPT ![r] = Update(@, value)]
    /\ processing_steps' = [processing_steps EXCEPT ![r] =
            << CompletedStep(step, value) >> \o @]
    /\ pc' = [pc EXCEPT ![r] = next]

StageCompletedReplaces(r, step, value, next) ==
    /\ shared_state' = [shared_state EXCEPT ![r] = value]
    /\ processing_steps' = [processing_steps EXCEPT ![r] =
            Append(@, CompletedStep(step, value))]
    /\ pc' = [pc EXCEPT ![r] = next]

StageCompleted(r, step, value, next) ==
    /\ shared_state' = [shared_state EXCEPT ![r] = Update(@, value)]
    /\ processing_steps' = [processing_steps EXCEPT ![r] =
            Append(@, CompletedStep(step, value))]
    /\ pc' = [pc EXCEPT ![r] = next]

StageFailedAborts(r, step, err, next) ==
    /\ shared_state' = shared_state
    /\ processing_steps' = [processing_steps EXCEPT ![r] =
            Append(@, FailedStep(step, err))]
    /\ pc' = [pc EXCEPT ![r] = "respond"]

StageFailedLeavesMark(r, step, err, next) ==
    /\ shared_state' = [shared_state EXCEPT ![r] = Update(@, [last_error |-> err])]
    /\ processing_steps' = [processing_steps EXCEPT ![r] =
            Append(@, FailedStep(step, err))]
    /\ pc' = [pc EXCEPT ![r] = next]

StageFailed(r, step, err, next) ==
    /\ shared_state' = shared_state
    /\ processing_steps' = [processing_steps EXCEPT ![r] =
            Append(@, FailedStep(step, err))]
    /\ pc' = [pc EXCEPT ![r] = next]

\* Lines 147-175.
Cleaner(r) ==
    /\ UNCHANGED << auxVars, otherVars, output_dir >>
    /\ pc[r] = "cleaner"
    /\ IF Has(shared_state[r], "dataframe")
       THEN /\ calls' = [calls EXCEPT ![r] = Append(@, "cleaner")]
            /\ \E fault \in BOOLEAN :
                  LET clean_result == IF fault THEN Raised("cleaning_tool raised")
                                      ELSE cleaning_tool(shared_state[r].dataframe)
                  IN IF clean_result.raised
                     THEN StageFailed(r, "cleaner", clean_result.error, "analyzer")
                     ELSE StageCompleted(r, "cleaner", clean_result.value, "analyzer")
       ELSE /\ calls' = calls
            /\ StageFailed(r, "cleaner", MissingInput("cleaner"), "analyzer")
    /\ UNCHANGED << file, temp_file_path, final_summary, insights, html_content,
                    report_id, response, tmpfs, output, clock, running, llm_call >>

\* Lines 177-204.
Analyzer(r) ==
    /\ UNCHANGED << auxVars, otherVars, output_dir >>
    /\ pc[r] = "analyzer"
    /\ IF Has(shared_state[r], "dataframe")
       THEN /\ calls' = [calls EXCEPT ![r] = Append(@, "analyzer")]
            /\ \E fault \in BOOLEAN :
                  LET analysis_result == IF fault THEN Raised("analysis_tool raised")
                                         ELSE analysis_tool(shared_state[r].dataframe)
                  IN IF analysis_result.raised
                     THEN StageFailed(r, "analyzer", analysis_result.error, "summarizer")
                     ELSE StageCompleted(r, "analyzer", analysis_result.value, "summarizer")
       ELSE /\ calls' = calls
            /\ StageFailed(r, "analyzer", MissingInput("analyzer"), "summarizer")
    /\ UNCHANGED << file, temp_file_path, final_summary, insights, html_content,
                    report_id, response, tmpfs, output, clock, running, llm_call >>

TruthyAlways(d) == TRUE

Truthy(d) == DOMAIN d # {}

FinalSummaryBlank(state) == GetOr(state, "summary_text", <<>>)

\* Lines 236-255.
FinalSummary(state) == GetOr(state, "summary_text", DefaultSummary)

Insights(state, path) ==
    [framework |-> "Google Agentic ADK",
     pipeline_execution |-> "completed",
     data_info |-> [filename |-> GetOrNone(state, "filename"),
                    rows |-> GetOrNone(state, "num_rows"),
                    columns |-> GetOrNone(state, "num_columns"),
                    column_names |-> GetOrNone(state, "column_names")],
     cleaning_info |-> [null_summary |-> GetOrNone(state, "null_summary"),
                        suggestions |-> GetOrNone(state, "suggestions")],
     analysis_results |-> GetOrNone(state, "numeric_summary"),
     file_processed |-> path]

LlmCall(fault, llm) ==
    IF fault THEN "none" ELSE IF llm.raised THEN "raised" ELSE "returned"

\* Lines 236-255, at the end of the summarizer block.
Compile(r) ==
    /\ final_summary' = [final_summary EXCEPT ![r] = FinalSummary(shared_state'[r])]
    /\ insights' = [insights EXCEPT ![r] = Insights(shared_state'[r], temp_file_path[r])]

\* Lines 206-212 and 224-255: the summarizer block up to the call of
\* model.generate_content inside summarizer_tool, which has no timeout.
Summarizer(r) ==
    /\ UNCHANGED << auxVars, otherVars, output_dir >>
    /\ pc[r] = "summarizer"
    /\ llm_call[r] = "none"
    /\ LET numeric_summary == GetOr(shared_state[r], "numeric_summary", EmptyDict)
           cleaned == GetOr(shared_state[r], "null_summary", EmptyDict)
       IN IF Truthy(numeric_summary)
          THEN /\ calls' = [calls EXCEPT ![r] = Append(@, "summarizer")]
               /\ \E fault \in BOOLEAN :
                     IF fault
                     THEN /\ StageFailed(r, "summarizer",
                                summarizer_tool(numeric_summary, cleaned, TRUE,
                                                CHOOSE l \in LlmOutcomes : TRUE).error,
                                "generate")
                          /\ Compile(r)
                          /\ llm_call' = llm_call
                     ELSE /\ llm_call' = [llm_call EXCEPT ![r] = "pending"]
                          /\ UNCHANGED << shared_state, processing_steps, pc,
                                          final_summary, insights >>
          ELSE /\ calls' = calls
               /\ llm_call' = llm_call
               /\ StageFailed(r, "summarizer", MissingInput("summarizer"), "generate")
               /\ Compile(r)
    /\ UNCHANGED << file, temp_file_path, html_content, report_id, response,
                    tmpfs, output, clock, running >>

\* llm_client.py 34-41 and main.py 212-255: generate_content answers or
\* raises, summarizer_tool returns and the summarizer block ends.
LlmAnswers(r) ==
    /\ UNCHANGED << auxVars, otherVars, output_dir >>
    /\ pc[r] = "summarizer"
    /\ llm_call[r] = "pending"
    /\ \E llm \in LlmOutcomes :
          LET numeric_summary == GetOr(shared_state[r], "numeric_summary", EmptyDict)
              cleaned == GetOr(shared_state[r], "null_summary", EmptyDict)
              summary_result == summarizer_tool(numeric_summary, cleaned, FALSE, llm)
          IN /\ llm_call' = [llm_call EXCEPT ![r] = LlmCall(FALSE, llm)]
             /\ StageCompleted(r, "summarizer", summary_result.value, "generate")
    /\ Compile(r)
    /\ UNCHANGED << file, temp_file_path, html_content, report_id, response,
                    calls, tmpfs, output, clock, running >>

(***************************************************************************)
(* Lines 261-280: the report is generated and saved; any exception of      *)
(* either call is logged and the handler goes on.                          *)
(***************************************************************************)
AnalysisData(r) ==
    [insights |-> insights[r], summary |-> final_summary[r],
     processing_steps |-> processing_steps[r]]

GenerateReport(r) ==
    /\ UNCHANGED << auxVars, otherVars, output_dir >>
    /\ pc[r] = "generate"
    /\ calls' = [calls EXCEPT ![r] = Append(@, "generate_html_report")]
    /\ \E fault \in BOOLEAN :
          IF fault
          THEN /\ pc' = [pc EXCEPT ![r] = "respond"]
               /\ UNCHANGED << html_content, report_id >>
          ELSE LET g == generate_html_report(AnalysisData(r), file[r].filename, clock)
               IN /\ html_content' = [html_content EXCEPT ![r] = g.html_content]
                  /\ report_id' = [report_id EXCEPT ![r] = g.report_id]
                  /\ pc' = [pc EXCEPT ![r] = "save"]
    /\ UNCHANGED << file, temp_file_path, shared_state, processing_steps,
                    final_summary, insights, response, tmpfs, output,
                    clock, running, llm_call >>

ReportUrl(id) == << "/reports/", id >>

SaveReport(r) ==
    /\ UNCHANGED << auxVars, otherVars >>
    /\ output_dir' = TRUE
    /\ pc[r] = "save"
    /\ calls' = [calls EXCEPT ![r] = Append(@, "save_html_report")]
    /\ \E fault \in SaveFaults :
          /\ output' = save_html_report(output, html_content[r], report_id[r], fault)
          /\ insights' = IF fault = "none"
                         THEN [insights EXCEPT ![r] = Update(@,
                                 [html_report |-> [report_id |-> report_id[r],
                                                   report_path |-> report_id[r],
                                                   report_url |-> ReportUrl(report_id[r])]])]
                         ELSE insights
    /\ pc' = [pc EXCEPT ![r] = "respond"]
    /\ UNCHANGED << file, temp_file_path, shared_state, processing_steps,
                    final_summary, html_content, report_id, response,
                    tmpfs, clock, running, llm_call >>

(***************************************************************************)
(* Lines 282-303: the temporary file is removed and the response built.    *)
(* The message formats report_id; while that local is unbound the          *)
(* formatting raises and the handler at 295-303 answers instead.           *)
(***************************************************************************)
AnalysisResponse(r) ==
    [status_code |-> 200,
     success |-> TRUE,
     message |-> << "Successfully analyzed", file[r].filename, report_id[r] >>,
     insights |-> insights[r],
     summary |-> final_summary[r],
     processing_steps |-> processing_steps[r]]

BuildResponse(r) ==
    IF report_id[r] = Unbound
    THEN HTTPException(500, "Analysis failed")
    ELSE AnalysisResponse(r)

Respond(r) ==
    /\ UNCHANGED << auxVars, otherVars, output_dir >>
    /\ pc[r] = "respond"
    /\ tmpfs' = Unlink(tmpfs, temp_file_path[r])
    /\ response' = [response EXCEPT ![r] = BuildResponse(r)]
    /\ pc' = [pc EXCEPT ![r] = "done"]
    /\ UNCHANGED << file, temp_file_path, shared_state, processing_steps,
                    final_summary, insights, html_content, report_id, calls,
                    output, clock, running, llm_call >>

(***************************************************************************)
(* The response is sent, the coroutine's locals are dropped and the event  *)
(* loop is free again.                                                     *)
(***************************************************************************)
Close(r) ==
    /\ UNCHANGED << auxVars, otherVars, output_dir >>
    /\ pc[r] = "done"
    /\ running = r
    /\ pc' = [pc EXCEPT ![r] = "closed"]
    /\ running' = 0
    /\ file' = [file EXCEPT ![r] = NoFile]
    /\ temp_file_path' = [temp_file_path EXCEPT ![r] = 0]
    /\ shared_state' = [shared_state EXCEPT ![r] = EmptyDict]
    /\ processing_steps' = [processing_steps EXCEPT ![r] = <<>>]
    /\ final_summary' = [final_summary EXCEPT ![r] = <<>>]
    /\ insights' = [insights EXCEPT ![r] = EmptyDict]
    /\ html_content' = [html_content EXCEPT ![r] = PartialFile]
    /\ report_id' = [report_id EXCEPT ![r] = Unbound]
    /\ response' = [response EXCEPT ![r] = NoResponse]
    /\ calls' = [calls EXCEPT ![r] = <<>>]
    /\ llm_call' = [llm_call EXCEPT ![r] = "none"]
    /\ UNCHANGED << tmpfs, output, clock >>

Tick ==
    /\ UNCHANGED << auxVars, otherVars, output_dir >>
    /\ clock < MaxClock
    /\ clock' = clock + 1
    /\ UNCHANGED << pc, file, temp_file_path, shared_state, processing_steps,
                    final_summary, insights, html_content, report_id, response,
                    calls, tmpfs, output, running, llm_call >>

Next ==
    \/ \E r \in Runs : Receive(r)
    \/ \E r \in Runs : ReadUpload(r)
    \/ \E r \in Runs : Ingest(r)
    \/ \E r \in Runs : Cleaner(r)
    \/ \E r \in Runs : Analyzer(r)
    \/ \E r \in Runs : Summarizer(r)
    \/ \E r \in Runs : LlmAnswers(r)
    \/ \E r \in Runs : GenerateReport(r)
    \/ \E r \in Runs : SaveReport(r)
    \/ \E r \in Runs : Respond(r)
    \/ \E r \in Runs : Close(r)
    \/ Tick

Spec == Init /\ [][Next]_vars

(***************************************************************************)
(* The handler is straight-line code on the event loop: once a run can     *)
(* take its next step it takes it.  The one step the program does not      *)
(* control is the answer of generate_content, which has no timeout         *)
(* (llm_client.py 34), so LlmAnswers carries no fairness.                  *)
(***************************************************************************)
RunStep(r) ==
    \/ ReadUpload(r)
    \/ Ingest(r)
    \/ Cleaner(r)
    \/ Analyzer(r)
    \/ Summarizer(r)
    \/ GenerateReport(r)
    \/ SaveReport(r)
    \/ Respond(r)
    \/ Close(r)

FairSpec == Init /\ [][Next]_vars /\ \A r \in Runs : WF_vars(RunStep(r))


(***************************************************************************)
(* Vocabulary of the properties.                                           *)
(***************************************************************************)
(* The report endpoints, main.py 327-413.  They are plain functions, which *)
(* the server runs on worker threads, so a request can be overtaken        *)
(* between its os.path.exists test and its file operation.  Each request   *)
(* is therefore two steps: the test (or the glob), then the operation.     *)
(***************************************************************************)
pipelineVars ==
    << pc, file, temp_file_path, shared_state, processing_steps, final_summary,
       insights, html_content, report_id, response, calls, tmpfs, running,
       llm_call >>

\* The report ids a client asks for: those a run on data.csv can produce.
ReportIds == { [stem |-> ReplaceCsv(f), ts |-> t] :
                  f \in { g \in Filenames : EndsWithCsv(g) }, t \in 0 .. MaxClock }

Free(c) == req[c].pc \in { "idle", "replied" }

Answer(c, code) ==
    [NoRequest EXCEPT !.op = req[c].op, !.id = req[c].id, !.pc = "replied",
                      !.status_code = code]

\* The analysis data of a run whose stages all completed, and of a run
\* whose stages after the ingestor all failed.
SampleStates ==
    LET ingested == ingestion_tool(1, [p \in {1} |-> ExampleCsv]).value
    IN { ingested,
         Update(Update(ingested, cleaning_tool(ExampleCsv).value),
                analysis_tool(ExampleCsv).value) }

SampleAnalyses ==
    { [insights |-> Insights(st, 1), summary |-> FinalSummary(st),
       processing_steps |-> <<>>] : st \in SampleStates }

\* Lines 261-280 of a run, seen from the report directory.
Publish ==
    /\ \E data \in SampleAnalyses, f \in { g \in Filenames : EndsWithCsv(g) },
          fault \in SaveFaults :
          LET g == generate_html_report(data, f, clock)
          IN /\ output' = save_html_report(output, g.html_content, g.report_id, fault)
             /\ mtime' = IF fault = "open" THEN mtime
                         ELSE Update(mtime, [k \in {g.report_id} |-> clock])
             /\ saved' = IF fault = "none"
                         THEN Update(saved, [k \in {g.report_id} |-> g.html_content])
                         ELSE IF fault = "write" THEN RemoveKey(saved, g.report_id)
                         ELSE saved
             /\ deleted' = IF fault = "open" THEN deleted
                           ELSE deleted \ {g.report_id}
    /\ output_dir' = TRUE
    /\ UNCHANGED << pipelineVars, otherVars, clock, req, cli >>

\* view_report, lines 362-367.
ViewStart(c) ==
    /\ Free(c)
    /\ \E id \in ReportIds :
          req' = [req EXCEPT ![c] =
                     IF Has(output, id)
                     THEN [NoRequest EXCEPT !.op = "view", !.id = id, !.pc = "checked"]
                     ELSE [NoRequest EXCEPT !.op = "view", !.id = id, !.pc = "replied",
                                            !.status_code = 404]]
    /\ UNCHANGED << pipelineVars, otherVars, output, output_dir, clock, mtime, saved, deleted, cli >>

\* view_report, lines 369-376.
ViewRead(c) ==
    /\ req[c].op = "view"
    /\ req[c].pc = "checked"
    /\ req' = [req EXCEPT ![c] =
                  IF Has(output, req[c].id)
                  THEN [Answer(c, 200) EXCEPT !.content = output[req[c].id]]
                  ELSE Answer(c, 500)]
    /\ UNCHANGED << pipelineVars, otherVars, output, output_dir, clock, mtime, saved, deleted, cli >>

\* download_report, lines 381-386.
DownloadStart(c) ==
    /\ Free(c)
    /\ \E id \in ReportIds :
          req' = [req EXCEPT ![c] =
                     IF Has(output, id)
                     THEN [NoRequest EXCEPT !.op = "download", !.id = id,
                                            !.pc = "checked"]
                     ELSE [NoRequest EXCEPT !.op = "download", !.id = id,
                                            !.pc = "replied", !.status_code = 404]]
    /\ UNCHANGED << pipelineVars, otherVars, output, output_dir, clock, mtime, saved, deleted, cli >>

\* download_report, lines 388-392: the handler returns a FileResponse,
\* which stats and reads the file when it is sent; a file that is gone by
\* then makes the send raise outside the handler's except clauses.
DownloadSend(c) ==
    /\ req[c].op = "download"
    /\ req[c].pc = "checked"
    /\ req' = [req EXCEPT ![c] =
                  IF Has(output, req[c].id)
                  THEN [Answer(c, 200) EXCEPT !.content = output[req[c].id]]
                  ELSE Answer(c, 500)]
    /\ UNCHANGED << pipelineVars, otherVars, output, output_dir, clock, mtime, saved, deleted, cli >>

\* delete_report, lines 401-406.
DeleteStart(c) ==
    /\ Free(c)
    /\ \E id \in ReportIds :
          req' = [req EXCEPT ![c] =
                     IF Has(output, id)
                     THEN [NoRequest EXCEPT !.op = "delete", !.id = id, !.pc = "checked"]
                     ELSE [NoRequest EXCEPT !.op = "delete", !.id = id,
                                            !.pc = "replied", !.status_code = 404]]
    /\ UNCHANGED << pipelineVars, otherVars, output, output_dir, clock, mtime, saved, deleted, cli >>

\* delete_report, lines 408-413.
DeleteRemove(c) ==
    /\ req[c].op = "delete"
    /\ req[c].pc = "checked"
    /\ IF Has(output, req[c].id)
       THEN /\ output' = RemoveKey(output, req[c].id)
            /\ mtime' = RemoveKey(mtime, req[c].id)
            /\ saved' = RemoveKey(saved, req[c].id)
            /\ deleted' = deleted \cup {req[c].id}
            /\ req' = [req EXCEPT ![c] = Answer(c, 200)]
       ELSE /\ req' = [req EXCEPT ![c] = Answer(c, 500)]
            /\ UNCHANGED << output, mtime, saved, deleted >>
    /\ UNCHANGED << pipelineVars, otherVars, output_dir, clock, cli >>

\* list_reports, lines 330-336: without the directory the answer is the
\* empty list at once; with it, the glob.
ListStart(c) ==
    /\ Free(c)
    /\ req' = [req EXCEPT ![c] =
                  IF ~output_dir
                  THEN [NoRequest EXCEPT !.op = "list", !.pc = "replied",
                                         !.status_code = 200]
                  ELSE [NoRequest EXCEPT !.op = "list", !.pc = "checked",
                                         !.names = DOMAIN output]]
    /\ UNCHANGED << pipelineVars, otherVars, output, output_dir, clock, mtime, saved, deleted, cli >>

\* sorted(report_files, key=os.path.getmtime, reverse=True): the orders
\* in which equal modification times may come out are all possible.
SortedByMtime(names, mt) ==
    { q \in [1 .. Cardinality(names) -> names] :
         /\ \A i, j \in DOMAIN q : i # j => q[i] # q[j]
         /\ \A i, j \in DOMAIN q : i < j => mt[q[i]] >= mt[q[j]] }

ReportEntry(id, mt) ==
    [report_id |-> id, created_at |-> mt[id], view_url |-> ReportUrl(id)]

\* list_reports, lines 338-357.
ListFinish(c) ==
    /\ req[c].op = "list"
    /\ req[c].pc = "checked"
    /\ IF req[c].names \subseteq DOMAIN output
       THEN \E q \in SortedByMtime(req[c].names, mtime) :
               req' = [req EXCEPT ![c] =
                          [Answer(c, 200) EXCEPT
                              !.reports = [i \in DOMAIN q |-> ReportEntry(q[i], mtime)],
                              !.total = Len(q),
                              !.message = << "Found", Len(q), "analysis reports" >>]]
       ELSE req' = [req EXCEPT ![c] = Answer(c, 500)]
    /\ UNCHANGED << pipelineVars, otherVars, output, output_dir, clock, mtime, saved, deleted, cli >>

(***************************************************************************)
(* The command-line pipeline, deployment/run_pipeline.py, in a configured   *)
(* environment.  The process is started with or without a path argument;  *)
(* an exception that nothing catches ends it with exit status 1.           *)
(***************************************************************************)
Argvs == { << "run_pipeline.py" >>, << "run_pipeline.py", "data.csv" >> }

\* agent_plan.py 13-18.
get_insightmesh_plan ==
    [name |-> "InsightMesh Full Pipeline",
     steps |-> << "ingestor", "cleaner", "analyzer", "summarizer" >>]

\* The attributes of a dict object: its methods, never its keys.
DictAttributes == { "keys", "values", "items", "get", "update", "pop" }

HasAttr(attribute) == attribute \in DictAttributes

Exit(code) == [cli EXCEPT !.pc = "exited", !.exit_code = code]

CliStart ==
    /\ cli.pc = "idle"
    /\ \E argv \in Argvs : cli' = [cli EXCEPT !.pc = "main", !.argv = argv]
    /\ UNCHANGED << pipelineVars, otherVars, output, output_dir, clock, req, mtime, saved, deleted >>

\* Lines 36-43.
CliMain ==
    /\ cli.pc = "main"
    /\ cli' = IF Len(cli.argv) < 2 THEN Exit(1) ELSE [cli EXCEPT !.pc = "plan"]
    /\ UNCHANGED << pipelineVars, otherVars, output, output_dir, clock, req, mtime, saved, deleted >>

\* Lines 45-62: the loop over plan.steps, then summary.txt.
CliRun ==
    /\ cli.pc = "plan"
    /\ cli' = IF HasAttr("steps")
              THEN [cli EXCEPT !.pc = "exited", !.exit_code = 0,
                               !.calls = get_insightmesh_plan.steps,
                               !.summary_written = TRUE]
              ELSE Exit(1)
    /\ UNCHANGED << pipelineVars, otherVars, output, output_dir, clock, req, mtime, saved, deleted >>

AuxNext ==
    \/ Publish
    \/ \E c \in Clients : ViewStart(c)
    \/ \E c \in Clients : ViewRead(c)
    \/ \E c \in Clients : DownloadStart(c)
    \/ \E c \in Clients : DownloadSend(c)
    \/ \E c \in Clients : DeleteStart(c)
    \/ \E c \in Clients : DeleteRemove(c)
    \/ \E c \in Clients : ListStart(c)
    \/ \E c \in Clients : ListFinish(c)
    \/ Tick

AuxSpec == Init /\ [][AuxNext]_vars

(***************************************************************************)
(* The stage functions applied on their own to every dataset of a small    *)
(* family: up to MaxCols columns, each numeric or not, over MaxRows rows   *)
(* or fewer, each cell present or missing.                                 *)
(***************************************************************************)
MaxCols == 2
MaxRows == 1

ColumnPool == << "id", "amount", "city" >>

CellValues == << 10, 30, 20 >>

Column(name, numeric, rows, nulls) ==
    [name |-> name, numeric |-> numeric,
     vals |-> SubSeq(CellValues, 1, rows - nulls), nulls |-> nulls]

Datasets ==
    UNION { { [parses |-> TRUE,
               columns |-> [i \in 1 .. n |->
                               Column(ColumnPool[i], shape[i][1], rows, shape[i][2])]] :
                 shape \in [1 .. n -> BOOLEAN \X (0 .. rows)] } :
            n \in 1 .. MaxCols, rows \in 0 .. MaxRows }

\* agents/cleaning_agent.py 6-22.
CleaningAgent_run(context) ==
    LET df == context.dataframe
        nulls == [n \in NameSet(df) |-> ColumnOf(df, n).nulls]
        with_nulls == SelectSeq(df.columns, LAMBDA c : c.nulls > 0)
    IN Update(context,
              [null_summary |-> nulls,
               cleaning_suggestions |->
                  [i \in DOMAIN with_nulls |->
                      << "Consider filling ", with_nulls[i].nulls,
                         " missing values in ", with_nulls[i].name >>],
               cleaning_notes |-> IF with_nulls = <<>>
                                  THEN "No missing values found. Dataset is clean."
                                  ELSE "Some missing values detected."])

\* agents/analysis_agent.py 6-26.
AnalysisAgent_run(context) ==
    LET df == context.dataframe
        numeric_cols == { n \in NameSet(df) : ColumnOf(df, n).numeric }
    IN Update(context,
              [numeric_summary |->
                  [n \in numeric_cols |-> Describe(ColumnOf(df, n))],
               analysis_notes |-> "Basic summary generated for all numeric columns."])

Applied(fn, arg, out) == [fn |-> fn, arg |-> arg, out |-> out]

ApplyCleaning ==
    /\ \E df \in Datasets :
          \/ call' = Applied("cleaning_tool", df, cleaning_tool(df).value)
          \/ call' = Applied("CleaningAgent.run", df,
                             CleaningAgent_run([dataframe |-> df]))
    /\ before' = NoCall
    /\ UNCHANGED << pipelineVars, auxVars, output, output_dir, clock, upload, temp_csv >>

ApplyAnalysis ==
    /\ \E df \in Datasets :
          \/ call' = Applied("analysis_tool", df, analysis_tool(df).value)
          \/ call' = Applied("AnalysisAgent.run", df,
                             AnalysisAgent_run([dataframe |-> df]))
    /\ before' = NoCall
    /\ UNCHANGED << pipelineVars, auxVars, output, output_dir, clock, upload, temp_csv >>

\* generate_html_report applied on its own, at the time the clock shows.
ApplyGenerate ==
    /\ \E data \in SampleAnalyses, f \in { g \in Filenames : EndsWithCsv(g) } :
          call' = Applied("generate_html_report",
                          [analysis_data |-> data, filename |-> f, now |-> clock],
                          generate_html_report(data, f, clock))
    /\ before' = IF call.fn = "generate_html_report" THEN call ELSE NoCall
    /\ UNCHANGED << pipelineVars, auxVars, output, output_dir, clock, upload, temp_csv >>

(***************************************************************************)
(* File paths.  A name is a sequence of tokens, "/" being the separator    *)
(* and ".." the parent directory when it stands alone between separators.  *)
(***************************************************************************)
\* Names a client can put in the multipart filename or in the URL.
ClientNames ==
    { <<"data", ".csv">>, <<"..", "/", "data", ".csv">>, <<"/", "data", ".csv">>,
      <<"..">>, <<"data">> }

\* os.path.join(output_dir, name): an absolute name discards output_dir.
os_path_join(dir, name) ==
    IF Len(name) > 0 /\ name[1] = "/" THEN name ELSE dir \o <<"/">> \o name

\* f"{report_id}.html" below the directory "output".
ReportPath(stem) == os_path_join(<<"output">>, stem \o <<".html">>)

RECURSIVE Split(_)
\* The components of a path, each a sequence of tokens.
Split(path) ==
    IF \A i \in 1 .. Len(path) : path[i] # "/" THEN << path >>
    ELSE LET i == CHOOSE j \in 1 .. Len(path) :
                      path[j] = "/" /\ \A k \in 1 .. j - 1 : path[k] # "/"
         IN << SubSeq(path, 1, i - 1) >> \o Split(SubSeq(path, i + 1, Len(path)))

RECURSIVE Resolve(_, _)
\* The directory walk the operating system does: an empty first component
\* is the root, ".." leaves the directory reached so far.
Resolve(components, reached) ==
    IF components = <<>> THEN reached
    ELSE LET c == Head(components)
             next == IF c = <<>> THEN IF reached = <<>> THEN << <<"/">> >> ELSE reached
                     ELSE IF c = <<"..">>
                          THEN IF reached = <<>> THEN << <<"..">> >>
                               ELSE SubSeq(reached, 1, Len(reached) - 1)
                          ELSE Append(reached, c)
         IN Resolve(Tail(components), next)

\* The file is an entry of the directory "output" itself.
DirectChild(path) ==
    LET reached == Resolve(Split(path), <<>>)
    IN Len(reached) = 2 /\ reached[1] = <<"output">>

\* The route "/reports/{report_id}": the parameter matches one path
\* segment, so a request whose identifier holds a separator matches no
\* report route and is answered 404 before any handler runs.
RouteMatches(id) == Len(id) > 0 /\ \A i \in 1 .. Len(id) : id[i] # "/"

\* The path save_html_report opens for the upload of a client-named file:
\* main.py 97 lets the name through when it ends with '.csv', line 269
\* derives the report_id from it, html_report_generator.py 467 joins it.
ApplySave ==
    /\ \E f \in { g \in ClientNames : EndsWithCsv(g) } :
          LET stem == ReplaceCsv(f) \o <<"_timestamp">>
          IN call' = Applied("save_html_report", [filename |-> f],
                             [report_id |-> stem, file_path |-> ReportPath(stem)])
    /\ before' = NoCall
    /\ UNCHANGED << pipelineVars, auxVars, output, output_dir, clock, upload, temp_csv >>

\* The path view_report, download_report and delete_report test and open
\* for an identifier taken from the URL.
ApplyLookup ==
    /\ \E id \in ClientNames, op \in {"view_report", "download_report", "delete_report"} :
          call' = Applied(op, [report_id |-> id],
                          IF RouteMatches(id)
                          THEN [status_code |-> 0, touched |-> << ReportPath(id) >>]
                          ELSE [status_code |-> 404, touched |-> <<>>])
    /\ before' = NoCall
    /\ UNCHANGED << pipelineVars, auxVars, output, output_dir, clock, upload, temp_csv >>

ToolNext ==
    \/ ApplyCleaning
    \/ ApplyAnalysis
    \/ ApplyGenerate
    \/ ApplySave
    \/ ApplyLookup
    \/ CliStart
    \/ CliMain
    \/ CliRun
    \/ Tick

ToolSpec == Init /\ [][ToolNext]_vars

(***************************************************************************)
(* POST /ingest/upload (agents/ingestion_agent.py, services/file_handler.py)*)
(* All requests write the upload to the one path TEMP_CSV_PATH and parse   *)
(* it from there.  The coroutine is suspended only at 'await file.read()'; *)
(* the write and pd.read_csv that follow run without giving up the event   *)
(* loop.                                                                   *)
(***************************************************************************)
OtherCsv ==
    [parses |-> TRUE,
     columns |-> << [name |-> "city", numeric |-> FALSE, vals |-> <<>>, nulls |-> 2] >>]

UploadContents == Contents \cup {OtherCsv}

save_and_read_csv_reads_first(temp, contents) ==
    [temp_csv |-> contents,
     df |-> IF temp.parses THEN Returned(temp)
            ELSE Raised("CSV processing failed")]

\* file_handler.py 10-18, after the await: write the bytes to
\* TEMP_CSV_PATH, then parse the file at TEMP_CSV_PATH.
save_and_read_csv(temp, contents) ==
    LET written == contents
    IN [temp_csv |-> written,
        df |-> IF written.parses THEN Returned(written)
               ELSE Raised("CSV processing failed")]

\* upload_file, lines 9-14, up to the await of file.read().
UploadStart(u) ==
    /\ upload[u].pc = "idle"
    /\ \E f \in Filenames, c \in UploadContents :
          LET others == { v \in Uploads \ {u} : upload[v].pc = "reading" }
              mine == [NoUpload EXCEPT !.file = [filename |-> f, content |-> c]]
          IN upload' =
                IF ~ EndsWithCsv(f)
                THEN [upload EXCEPT ![u] = [mine EXCEPT !.pc = "replied",
                                                        !.status_code = 400]]
                ELSE [v \in Uploads |->
                        IF v = u
                        THEN [mine EXCEPT !.pc = "reading", !.overlapped = others # {}]
                        ELSE IF v \in others
                             THEN [upload[v] EXCEPT !.overlapped = TRUE]
                             ELSE upload[v]]
    /\ UNCHANGED << pipelineVars, auxVars, output, output_dir, clock, call, before,
                    temp_csv >>

\* file_handler.py 12-16 and upload_file 14-22, from the resumption to the
\* response.
UploadFinish(u) ==
    /\ upload[u].pc = "reading"
    /\ LET r == save_and_read_csv(temp_csv, upload[u].file.content)
       IN /\ temp_csv' = r.temp_csv
          /\ upload' = [upload EXCEPT ![u] =
                          IF r.df.raised
                          THEN [@ EXCEPT !.pc = "replied", !.status_code = 500]
                          ELSE [@ EXCEPT !.pc = "replied", !.status_code = 200,
                                         !.df = r.df.value]]
    /\ UNCHANGED << pipelineVars, auxVars, output, output_dir, clock, call, before >>

\* The response has been sent; the client may send another upload.
UploadClose(u) ==
    /\ upload[u].pc = "replied"
    /\ upload' = [upload EXCEPT ![u] = NoUpload]
    /\ UNCHANGED << pipelineVars, auxVars, output, output_dir, clock, call, before,
                    temp_csv >>

UploadNext ==
    \/ \E u \in Uploads : UploadStart(u)
    \/ \E u \in Uploads : UploadFinish(u)
    \/ \E u \in Uploads : UploadClose(u)

UploadSpec == Init /\ [][UploadNext]_vars

(***************************************************************************)
Range(q) == { q[i] : i \in 1 .. Len(q) }

StageOrder == << "ingestor", "cleaner", "analyzer", "summarizer" >>

LaterStages == { "cleaner", "analyzer", "summarizer" }

StageIndex(s) == CHOOSE i \in 1 .. Len(StageOrder) : StageOrder[i] = s

StepsOf(r, s) == { i \in 1 .. Len(processing_steps[r]) : processing_steps[r][i].step = s }

StepOf(r, s) == processing_steps[r][CHOOSE i \in StepsOf(r, s) : TRUE]

IngestRaised(r) ==
    /\ Len(processing_steps[r]) >= 1
    /\ processing_steps[r][1].step = "ingestor"
    /\ processing_steps[r][1].status = "failed"

IngestSucceeded(r) ==
    /\ Len(processing_steps[r]) >= 1
    /\ processing_steps[r][1].step = "ingestor"
    /\ processing_steps[r][1].status = "completed"

ToolRaised(r, s) ==
    /\ s \in Range(calls[r])
    /\ StepsOf(r, s) # {}
    /\ StepOf(r, s).status = "failed"

PastStages == { "generate", "save", "respond", "done" }

\* C1: when the ingest stage raises, the cleaner, analyzer and summarizer
\* tools are never invoked in that run and the request ends with HTTP 500,
\* not with a success body.
C1_IngestFailureAborts ==
    \A r \in Runs :
        IngestRaised(r) =>
            /\ calls[r] = << "ingestor" >>
            /\ pc[r] = "done"
            /\ response[r].status_code = 500
            /\ ~Has(response[r], "success")

C1_Witness ==
    \E r \in Runs : IngestRaised(r) /\ pc[r] = "done" /\ response[r].status_code = 500

\* C2: once ingest has succeeded, whichever of the cleaner, analyzer and
\* summarizer tools raise, the run is never aborted, each of the three stages
\* has exactly one recorded step once the stages are over, and the run
\* calls the report generator.
C2_LaterFailuresNeverAbort ==
    \A r \in Runs :
        IngestSucceeded(r) =>
            /\ pc[r] \in LaterStages \cup PastStages
            /\ pc[r] \in PastStages =>
                  \A s \in LaterStages : Cardinality(StepsOf(r, s)) = 1
            /\ pc[r] \in { "save", "respond", "done" } =>
                  "generate_html_report" \in Range(calls[r])

C2_Witness ==
    \E r \in Runs :
        /\ IngestSucceeded(r)
        /\ ToolRaised(r, "cleaner")
        /\ ToolRaised(r, "summarizer")
        /\ pc[r] = "done"
        /\ "generate_html_report" \in Range(calls[r])

\* C3: a step of the cleaner, analyzer or summarizer stage that records the
\* stage as failed leaves the run's shared state exactly as it was before
\* the stage ran.
C3_FailedStageKeepsState ==
    [][ \A r \in Runs :
          ( /\ pc[r] \in LaterStages
            /\ Len(processing_steps'[r]) = Len(processing_steps[r]) + 1
            /\ processing_steps'[r][Len(processing_steps'[r])].status = "failed" )
          => shared_state'[r] = shared_state[r] ]_vars

C3_Witness ==
    \E r \in Runs :
        /\ pc[r] = "summarizer"
        /\ ToolRaised(r, "cleaner")
        /\ ToolRaised(r, "analyzer")
        /\ DOMAIN shared_state[r] =
              { "uploaded_file", "dataframe", "filename", "num_rows",
                "num_columns", "column_names" }


WrittenKey(s) ==
    CASE s = "cleaner" -> "null_summary"
      [] s = "analyzer" -> "numeric_summary"
      [] s = "summarizer" -> "summary_text"

RequiredKey(s) ==
    CASE s = "cleaner" -> "dataframe"
      [] s = "analyzer" -> "dataframe"
      [] s = "summarizer" -> "numeric_summary"

IsSuccessBody(resp) ==
    /\ resp.status_code = 200
    /\ Has(resp, "success")
    /\ resp.success

ReportFailed(r) ==
    /\ "generate_html_report" \in Range(calls[r])
    /\ ~Has(insights[r], "html_report")

\* C4: for a .csv upload whose ingest stage succeeded the request ends with
\* a body with success = true whatever subset of the cleaner, analyzer and
\* summarizer stages failed, and the body's processing_steps say 'failed'
\* for exactly the stages that wrote nothing and 'completed' for the others.
C4_SuccessWhateverFailed ==
    \A r \in Runs :
        (pc[r] = "done" /\ IngestSucceeded(r)) =>
            /\ IsSuccessBody(response[r])
            /\ response[r].processing_steps = processing_steps[r]
            /\ \A s \in LaterStages :
                  StepOf(r, s).status =
                      IF Has(shared_state[r], WrittenKey(s)) THEN "completed" ELSE "failed"

\* C5: when generating or saving the report fails in a run whose ingest
\* succeeded, the request still ends with a success body that carries the
\* computed summary and the processing steps.
C5_ReportFailureStillSuccess ==
    \A r \in Runs :
        (pc[r] = "done" /\ IngestSucceeded(r) /\ ReportFailed(r)) =>
            /\ IsSuccessBody(response[r])
            /\ response[r].summary = final_summary[r]
            /\ response[r].processing_steps = processing_steps[r]

\* C6: when a run has ended, on whatever path, the temporary file it created
\* for the upload no longer exists.
C6_TempFileDeleted ==
    \A r \in Runs : pc[r] = "done" => ~Has(tmpfs, r)

StageSkippedAs(r, s, status) ==
    /\ s \notin Range(calls[r])
    /\ StepOf(r, s).status = status
    /\ Has(StepOf(r, s), "error")
    /\ StepOf(r, s).error = MissingInput(s)
    /\ pc[r] \in LaterStages \cup PastStages
    /\ pc[r] = "done" => "generate_html_report" \in Range(calls[r])

InputWasMissing(r, s) ==
    /\ StepsOf(r, s) # {}
    /\ ~Has(shared_state[r], RequiredKey(s))

\* C7 as stated: a stage whose required input key is absent is not invoked,
\* is recorded with status 'skipped' and an error naming the missing
\* precondition, and the run continues.
C7_MissingInputSkipped ==
    \A r \in Runs : \A s \in LaterStages :
        InputWasMissing(r, s) => StageSkippedAs(r, s, "skipped")

\* C7 as amended: a stage whose required input key is absent is not invoked,
\* is recorded with status 'failed' and an error naming the missing
\* precondition, and the run continues.
C7_MissingInputFailed ==
    \A r \in Runs : \A s \in LaterStages :
        InputWasMissing(r, s) => StageSkippedAs(r, s, "failed")

C7_Witness ==
    \E r \in Runs :
        /\ InputWasMissing(r, "summarizer")
        /\ StepOf(r, "summarizer").status = "failed"
        /\ pc[r] = "done"

\* C8: when the language-model call raises while the summarizer runs, the
\* stage yields a non-empty summary_text, its step is recorded 'completed'
\* and the request ends with success = true.
C8_LlmFailureFallsBack ==
    \A r \in Runs :
        (pc[r] = "done" /\ llm_call[r] = "raised") =>
            /\ Has(shared_state[r], "summary_text")
            /\ Len(shared_state[r].summary_text) > 0
            /\ StepOf(r, "summarizer").status = "completed"
            /\ IsSuccessBody(response[r])

\* C9: a run whose ingest stage failed never calls the report generator or
\* the report store, and no step of that run changes the stored reports.
C9_NoReportAfterIngestFailure ==
    /\ [](\A r \in Runs :
            IngestRaised(r) =>
                /\ "generate_html_report" \notin Range(calls[r])
                /\ "save_html_report" \notin Range(calls[r]))
    /\ [][ \A r \in Runs :
             (running = r /\ (IngestRaised(r) \/ IngestRaised(r)')) => output' = output ]_vars

C9_Witness ==
    \E r \in Runs :
        /\ IngestRaised(r)
        /\ pc[r] = "done"
        /\ DOMAIN output # {}

\* C10: the processing steps of a run are the stages in declaration order,
\* ingestor, cleaner, analyzer, summarizer, each at most once, and when the
\* tool of stage k+1 is invoked the steps of stages 1..k are already
\* recorded.
C10_StepsInDeclarationOrder ==
    /\ [](\A r \in Runs :
            /\ Len(processing_steps[r]) <= Len(StageOrder)
            /\ \A i \in 1 .. Len(processing_steps[r]) :
                  processing_steps[r][i].step = StageOrder[i])
    /\ [][ \A r \in Runs :
             ( /\ Len(calls'[r]) = Len(calls[r]) + 1
               /\ calls'[r][Len(calls'[r])] \in Range(StageOrder) )
             => Len(processing_steps[r]) = StageIndex(calls'[r][Len(calls'[r])]) - 1 ]_vars

C10_Witness ==
    \E r \in Runs :
        /\ pc[r] = "done"
        /\ Len(processing_steps[r]) = 4
        /\ processing_steps[r][2].status = "failed"
        /\ processing_steps[r][3].status = "completed"
        /\ calls[r] = << "ingestor", "cleaner", "analyzer", "summarizer",
                         "generate_html_report", "save_html_report" >>


(***************************************************************************)
(* C11: any two distinct runs get distinct report_ids, so a run that is    *)
(* about to save its report never finds a report file of another run       *)
(* under its own report_id.                                                *)
(***************************************************************************)
C11_DistinctReportIds ==
    \A r \in Runs : pc[r] = "save" => ~Has(output, report_id[r])

(***************************************************************************)
(* C14: within one run the set of keys of the shared state only grows;     *)
(* every step of a run that is still open keeps each key that was written. *)
(***************************************************************************)
C14_KeysOnlyGrow ==
    [][ \A r \in Runs :
           pc'[r] # "closed" =>
              \A k \in DOMAIN shared_state[r] : Has(shared_state'[r], k) ]_vars

C14_Witness ==
    \E r \in Runs :
       /\ pc[r] = "generate"
       /\ { "uploaded_file", "dataframe", "null_summary", "numeric_summary",
            "summary_text" } \subseteq DOMAIN shared_state[r]

(***************************************************************************)
(* C18: an upload whose filename does not end in '.csv' is answered with   *)
(* HTTP 400 and has created no temporary file, run no stage and written    *)
(* no report.                                                              *)
(***************************************************************************)
C18_NonCsvRejected ==
    \A r \in Runs :
       (pc[r] = "done" /\ file[r].filename[Len(file[r].filename)] # ".csv") =>
          /\ response[r].status_code = 400
          /\ calls[r] = <<>>
          /\ processing_steps[r] = <<>>
          /\ temp_file_path[r] = 0
          /\ ~Has(tmpfs, NamedTemporaryFile(r))
          /\ report_id[r] = Unbound

C18_Witness ==
    \E r \in Runs :
       /\ pc[r] = "done"
       /\ file[r].filename[Len(file[r].filename)] # ".csv"
       /\ response[r].status_code = 400


(***************************************************************************)
(* C15: concurrent runs share no mutable state.  Runs that are open at     *)
(* the same time have different temporary files; a step changes the        *)
(* locals of at most one run and leaves the temporary file of every run    *)
(* whose locals it does not change as it was; and the dataset a run        *)
(* works on and reports is the one parsed from its own upload.             *)
(***************************************************************************)
Locals(r) ==
    << pc[r], file[r], temp_file_path[r], shared_state[r], processing_steps[r],
       final_summary[r], insights[r], html_content[r], report_id[r],
       response[r], calls[r], llm_call[r] >>

HoldsTempFile(r) ==
    pc[r] \in { "reading", "ingest", "cleaner", "analyzer", "summarizer",
                "generate", "save", "respond" }

OwnDataset(r) == [p \in {temp_file_path[r]} |-> file[r].content]

C15_RunsShareNothing ==
    [][ /\ \A r1, r2 \in Runs :
              (r1 # r2 /\ HoldsTempFile(r1) /\ HoldsTempFile(r2)) =>
                 NamedTemporaryFile(r1) # NamedTemporaryFile(r2)
        /\ \A r1, r2 \in Runs :
              r1 # r2 => (Locals(r1)' = Locals(r1) \/ Locals(r2)' = Locals(r2))
        /\ \A r \in Runs :
              (HoldsTempFile(r) /\ Locals(r)' = Locals(r)) =>
                 /\ Has(tmpfs', NamedTemporaryFile(r))
                 /\ tmpfs'[NamedTemporaryFile(r)] = tmpfs[NamedTemporaryFile(r)]
        /\ \A r \in Runs :
              (pc'[r] \in PastStages \cup LaterStages /\ IngestSucceeded(r)') =>
                 /\ shared_state'[r].dataframe = file'[r].content
                 /\ processing_steps'[r][1] =
                       CompletedStep("ingestor",
                          ingestion_tool(temp_file_path'[r], OwnDataset(r)').value)
                 /\ (StepsOf(r, "cleaner")' # {}
                       /\ StepOf(r, "cleaner")'.status = "completed") =>
                          StepOf(r, "cleaner")' =
                             CompletedStep("cleaner",
                                cleaning_tool(file'[r].content).value)
                 /\ (StepsOf(r, "analyzer")' # {}
                       /\ StepOf(r, "analyzer")'.status = "completed") =>
                          StepOf(r, "analyzer")' =
                             CompletedStep("analyzer",
                                analysis_tool(file'[r].content).value) ]_vars

C15_Witness ==
    \E r1, r2 \in Runs :
       /\ r1 # r2
       /\ pc[r1] = "reading"
       /\ pc[r2] = "analyzer"
       /\ Has(tmpfs, NamedTemporaryFile(r1))
       /\ Has(tmpfs, NamedTemporaryFile(r2))


(***************************************************************************)
(* C16: in a generated report each of the sections statistics, missing     *)
(* values and summary shows its 'not available' placeholder exactly when   *)
(* the stage that produces the section's data failed or never ran.         *)
(***************************************************************************)
StageGaveNothing(r, s) ==
    StepsOf(r, s) = {} \/ StepOf(r, s).status # "completed"

C16_PlaceholderIffStageFailed ==
    \A r \in Runs :
       pc[r] = "save" =>
          /\ html_content[r].statistics_section.text = "No statistical analysis available."
                <=> StageGaveNothing(r, "analyzer")
          /\ html_content[r].cleaning_section.text = "No cleaning analysis available."
                <=> StageGaveNothing(r, "cleaner")
          /\ html_content[r].summary_section.text = "No summary available."
                <=> StageGaveNothing(r, "summarizer")


(***************************************************************************)
(* C17: a run on a file for which an earlier run already stored a          *)
(* complete report computes the same statistics mapping and the same       *)
(* null_summary mapping as that earlier run, whenever both computed them,  *)
(* and has a report_id different from the earlier run's.                   *)
(***************************************************************************)
EarlierReports(r) ==
    { k \in DOMAIN output :
         output[k] # PartialFile /\ output[k].title = file[r].filename }

C17_SameStatsOtherReportId ==
    \A r \in Runs :
       pc[r] = "save" =>
          \A k \in EarlierReports(r) :
             LET mine == html_content[r].insights
                 theirs == output[k].insights
             IN /\ (mine.analysis_results # <<>> /\ theirs.analysis_results # <<>>)
                      => mine.analysis_results = theirs.analysis_results
                /\ (mine.cleaning_info.null_summary # <<>>
                      /\ theirs.cleaning_info.null_summary # <<>>)
                      => mine.cleaning_info.null_summary = theirs.cleaning_info.null_summary
                /\ report_id[r] # k


(***************************************************************************)
(* C20: every run that reached the summarizer stage eventually finishes    *)
(* with a response, even if the language-model call never answers.         *)
(***************************************************************************)
C20_RunEventuallyResponds ==
    \A r \in Runs : (pc[r] = "summarizer") ~> (pc[r] = "done")


C13_DeletedStaysGone ==
    [][ /\ \A id \in deleted : ~Has(output, id)
        /\ \A c \in Clients :
              (Free(c) /\ req'[c] # req[c] /\ req'[c].op \in { "view", "delete" }
                  /\ req'[c].id \in deleted) =>
                 /\ req'[c].pc = "replied"
                 /\ req'[c].status_code = 404
        /\ \A c \in Clients :
              (Free(c) /\ req'[c] # req[c] /\ req'[c].op = "list") =>
                 req'[c].names \cap deleted = {}
        /\ \A c \in Clients :
              (req[c].op = "list" /\ req[c].pc = "checked"
                  /\ req'[c].pc = "replied" /\ req'[c].status_code = 200) =>
                 \A i \in DOMAIN req'[c].reports :
                    req'[c].reports[i].report_id \notin deleted ]_vars

C13_Witness ==
    \E c1, c2 \in Clients :
       /\ c1 # c2
       /\ req[c1].op = "delete" /\ req[c1].pc = "replied"
       /\ req[c1].status_code = 404 /\ req[c1].id \in deleted
       /\ req[c2].op = "view" /\ req[c2].pc = "replied"
       /\ req[c2].status_code = 404 /\ req[c2].id = req[c1].id

(***************************************************************************)
(* C19: the command-line pipeline started with a path argument runs the    *)
(* four stages in order, writes the summary file and exits 0; started      *)
(* without one it exits 1 and has run no stage.                            *)
(***************************************************************************)
C19_CliRunsAllStages ==
    cli.pc = "exited" =>
       IF Len(cli.argv) >= 2
       THEN /\ cli.exit_code = 0
            /\ cli.calls = StageOrder
            /\ cli.summary_written
       ELSE /\ cli.exit_code = 1
            /\ cli.calls = <<>>


(***************************************************************************)
(* C26 as stated: when the analyzer stage failed, the summarizer tool is   *)
(* still invoked and the summarizer step is recorded 'completed'.          *)
(***************************************************************************)
AnalyzerFailed(r) ==
    /\ pc[r] \in PastStages
    /\ StepsOf(r, "analyzer") # {}
    /\ StepOf(r, "analyzer").status = "failed"

C26_FailedAnalysisStillSummarized ==
    \A r \in Runs :
       AnalyzerFailed(r) =>
          /\ "summarizer" \in Range(calls[r])
          /\ StepOf(r, "summarizer").status = "completed"

(***************************************************************************)
(* C26 as amended: when the analyzer stage failed, the summarizer tool is  *)
(* not invoked, the summarizer step is recorded 'failed' with the error    *)
(* that names the missing analysis results, no summary_text is written,    *)
(* and the run goes on to the report with the fixed default summary.       *)
(***************************************************************************)
C26_FailedAnalysisDefaultSummary ==
    \A r \in Runs :
       AnalyzerFailed(r) =>
          /\ "summarizer" \notin Range(calls[r])
          /\ StepsOf(r, "summarizer") # {}
          /\ StepOf(r, "summarizer").status = "failed"
          /\ StepOf(r, "summarizer").error = MissingInput("summarizer")
          /\ ~Has(shared_state[r], "summary_text")
          /\ final_summary[r] = DefaultSummary
          /\ "generate_html_report" \in Range(calls[r]) \/ pc[r] = "generate"

C26_Witness ==
    \E r \in Runs :
       /\ AnalyzerFailed(r)
       /\ pc[r] = "respond"
       /\ "analyzer" \in Range(calls[r])
       /\ final_summary[r] = DefaultSummary

(***************************************************************************)
(* C28: every recorded processing step is well formed.  Its status is      *)
(* 'completed' exactly when it carries an output and no error; a step      *)
(* that did not complete carries an error and no output; and a completed   *)
(* step's stage function was called and the keys it reports are in the     *)
(* shared state with the reported values.                                  *)
(***************************************************************************)
WellFormedStep(r, st) ==
    /\ st.status = "completed" <=> (Has(st, "output") /\ ~Has(st, "error"))
    /\ st.status # "completed" => (Has(st, "error") /\ ~Has(st, "output"))
    /\ st.status = "completed" =>
          /\ st.step \in Range(calls[r])
          /\ \A k \in DOMAIN st.output :
                /\ Has(shared_state[r], k)
                /\ st.output[k] = << shared_state[r][k] >>

C28_StepsWellFormed ==
    \A r \in Runs :
       \A i \in 1 .. Len(processing_steps[r]) :
          WellFormedStep(r, processing_steps[r][i])

C28_Witness ==
    \E r \in Runs :
       /\ pc[r] = "done"
       /\ \E i, j \in 1 .. Len(processing_steps[r]) :
             /\ processing_steps[r][i].status = "completed"
             /\ processing_steps[r][j].status = "failed"

(***************************************************************************)
(* C29: whenever a run answers with a success body, the body's             *)
(* insights.html_report names the report this run saved, the stored file   *)
(* is the run's report, report_url is '/reports/' followed by that id and  *)
(* the message names the same id.                                          *)
(***************************************************************************)
C29_SuccessNamesSavedReport ==
    \A r \in Runs :
       (pc[r] = "done" /\ IsSuccessBody(response[r])) =>
          /\ Has(response[r].insights, "html_report")
          /\ response[r].insights.html_report.report_id = report_id[r]
          /\ response[r].insights.html_report.report_url = ReportUrl(report_id[r])
          /\ response[r].message[3] = report_id[r]
          /\ "save_html_report" \in Range(calls[r])
          /\ Has(output, report_id[r])
          /\ output[report_id[r]] = html_content[r]

(***************************************************************************)
(* C25: every GET /reports answers 200 with one entry per report file      *)
(* that its glob found, ordered by modification time with the most         *)
(* recently modified first, and with total equal to the number of          *)
(* entries; without the report directory it answers the empty list with    *)
(* total 0.                                                                *)
(***************************************************************************)
ListedIds(reports) == { reports[i].report_id : i \in DOMAIN reports }

C25_ListIsDirectoryByMtime ==
    [][ \A c \in Clients :
           /\ (Free(c) /\ req'[c] # req[c] /\ req'[c].op = "list") =>
                 IF output_dir
                 THEN req'[c].pc = "checked" /\ req'[c].names = DOMAIN output
                 ELSE /\ req'[c].pc = "replied"
                      /\ req'[c].status_code = 200
                      /\ req'[c].reports = <<>>
                      /\ req'[c].total = 0
           /\ (req[c].op = "list" /\ req[c].pc = "checked" /\ req'[c].pc = "replied") =>
                 /\ req'[c].status_code = 200
                 /\ ListedIds(req'[c].reports) = req[c].names
                 /\ Len(req'[c].reports) = Cardinality(req[c].names)
                 /\ \A i, j \in DOMAIN req'[c].reports :
                       i < j => req'[c].reports[i].created_at
                                   >= req'[c].reports[j].created_at
                 /\ req'[c].total = Len(req'[c].reports) ]_vars

(***************************************************************************)
(* C27: no request to a report endpoint ends with a server fault: a view,  *)
(* download or delete of an id that is not in the store answers 404, also  *)
(* when the report was deleted after the request's existence test, and a   *)
(* listing answers 200 also when a report is deleted while it lists.       *)
(***************************************************************************)
C27_NotFoundNeverServerFault ==
    \A c \in Clients :
       req[c].pc = "replied" =>
          IF req[c].op = "list" THEN req[c].status_code = 200
          ELSE req[c].status_code \in { 200, 404 }

(***************************************************************************)
(* C23: for every dataset the cleaner returns a null_summary whose keys    *)
(* are exactly the dataset's column names, and one suggestion per column   *)
(* with a missing count above zero, in column order.                       *)
(***************************************************************************)
ColumnsWithNulls(df) == SelectSeq(df.columns, LAMBDA c : c.nulls > 0)

SuggestionsOf(applied) ==
    IF applied.fn = "cleaning_tool" THEN applied.out.suggestions
    ELSE applied.out.cleaning_suggestions

C23_CleanerCoversColumns ==
    call.fn \in { "cleaning_tool", "CleaningAgent.run" } =>
       /\ DOMAIN call.out.null_summary = NameSet(call.arg)
       /\ Len(SuggestionsOf(call)) = Len(ColumnsWithNulls(call.arg))
       /\ \A i \in DOMAIN SuggestionsOf(call) :
             SuggestionsOf(call)[i][Len(SuggestionsOf(call)[i])]
                = ColumnsWithNulls(call.arg)[i].name

C23_Witness ==
    /\ call.fn = "cleaning_tool"
    /\ Len(call.arg.columns) = 2
    /\ call.arg.columns[1].nulls = 0
    /\ call.arg.columns[2].nulls > 0
    /\ Len(call.out.suggestions) = 1

(***************************************************************************)
(* C24: for every dataset with at least one row and at least one numeric   *)
(* column the analyzer's statistics mapping has an entry for every         *)
(* numeric column and none for a non-numeric column.                       *)
(***************************************************************************)
NumericColumns(df) == { n \in NameSet(df) : ColumnOf(df, n).numeric }

C24_StatsForNumericColumnsOnly ==
    (call.fn \in { "analysis_tool", "AnalysisAgent.run" }
        /\ NumRows(call.arg) >= 1 /\ NumericColumns(call.arg) # {}) =>
       DOMAIN call.out.numeric_summary = NumericColumns(call.arg)

(***************************************************************************)
(* C21 as stated: two calls of generate_html_report with the same          *)
(* analysis data and the same filename return the same report body and     *)
(* the same report_id.                                                     *)
(***************************************************************************)
SameInputsTwice ==
    /\ call.fn = "generate_html_report"
    /\ before.fn = "generate_html_report"
    /\ call.arg.analysis_data = before.arg.analysis_data
    /\ call.arg.filename = before.arg.filename

C22_StoreStaysInReportDir ==
    /\ call.fn = "save_html_report" => DirectChild(call.out.file_path)
    /\ call.fn \in {"view_report", "download_report", "delete_report"}
          => \A i \in 1 .. Len(call.out.touched) : DirectChild(call.out.touched[i])

\* The endpoints alone keep to the directory: the router lets no separator
\* into report_id.
C22_EndpointsStayInReportDir ==
    call.fn \in {"view_report", "download_report", "delete_report"}
          => \A i \in 1 .. Len(call.out.touched) : DirectChild(call.out.touched[i])

C22_SaveEscapes ==
    /\ call.fn = "save_html_report"
    /\ ~ DirectChild(call.out.file_path)

(***************************************************************************)
(* C30: an answered /ingest/upload request reports the table parsed from   *)
(* its own upload, also when another upload was in progress at the same    *)
(* time; it fails only when its own upload does not parse.                 *)
(***************************************************************************)
C30_UploadReadsOwnBytes ==
    \A u \in Uploads :
       upload[u].pc = "replied" =>
          /\ upload[u].status_code = 200 => upload[u].df = upload[u].file.content
          /\ upload[u].status_code = 500 => ~ upload[u].file.content.parses

C30_Witness ==
    /\ \A u \in Uploads :
          /\ upload[u].pc = "replied"
          /\ upload[u].status_code = 200
          /\ upload[u].overlapped
          /\ upload[u].df = upload[u].file.content
    /\ upload[1].file.content # upload[2].file.content
====
